---- MODULE Spec2Model ----
(***************************************************************************)
(* MultiMountainsEnv (src/multi_mountains/module.py): a car on a terrain   *)
(* made of chained hill segments, driven by reset() and step(action).      *)
(*                                                                         *)
(* Numbers.  The program computes in floating point.  The model computes   *)
(* in fixed point: positions, velocities, forces and slopes are integers   *)
(* counting hundredths (0.07 is 7, 1e-2 is 1, -1.2 is -120, -pi/6 is -52), *)
(* heights are integers counting ten-thousandths (Scale * Scale per unit). *)
(* Every division rounds to the nearest integer (RDiv), as a float         *)
(* operation rounds to the nearest representable number.                   *)
(*                                                                         *)
(* Construction parameters.  max_speed, the wall speed 1e-2 and the local  *)
(* hill points are fixed by the code.  force, gravity and delta are        *)
(* parameters of __init__; the model constructs the environment with       *)
(* force = 0.02, gravity = 0.01 and delta = 0.01, which are representable  *)
(* in hundredths, and with max_step and angles drawn from small sets.      *)
(***************************************************************************)
EXTENDS Integers, Sequences, FiniteSets

VARIABLES
    angles,     \* self.angles: the angle sequence given to __init__
    max_step,   \* self.max_step
    counter,    \* self.counter
    state,      \* self.state: <<x, v>>, or <<>> while the attribute is not set
    lastOp,     \* the latest call: "init", "reset", "step" or "step_raised"
    ret,        \* what the latest call returned: <<obs>> or <<obs, reward, done>>
    p,          \* local p of the latest step call: the position before it
    v_clipped,  \* local v of the latest step call right after np.clip,
                \* before the wall rule
    nsteps      \* number of step calls that returned since the latest reset

vars == <<angles, max_step, counter, state, lastOp, ret, p, v_clipped, nsteps>>

----------------------------------------------------------------------------
(* Fixed-point arithmetic *)

\* One unit of position or velocity is Scale hundredths.
Scale == 100

\* a / b rounded to the nearest integer (b > 0), halves rounded up.
RDiv(a, b) == (2 * a + b) \div (2 * b)

\* Largest step counter the model explores.
MaxCounter == 24

\* Angle sequences the environment is constructed with (degrees).
AngleSeqs == { <<0>>, <<0, 10>> }

\* max_step values the environment is constructed with.
MaxSteps == { 3, 20 }

\* action_space = spaces.Discrete(3)
Actions == 0 .. 2

----------------------------------------------------------------------------
(* Construction parameters and constants of __init__ *)

g == 1            \* self.g = gravity, 0.01
F == 2            \* self.F = force, 0.02
delta == 1        \* self.delta = delta, 0.01
max_speed == 7    \* self.max_speed = 0.07
NumSamples == 1024 \* np.linspace(..., 1024) in reset

----------------------------------------------------------------------------
(* Terrain Geometry Builder *)

\* np.sin(3 * x) at the three local abscissas, in ten-thousandths.
sin3(x) ==
    CASE x = -120 -> 4425      \* sin(-3.6)
      [] x = -52  -> -10000    \* sin(-pi/2)
      [] x = 50   -> 9975      \* sin(1.5)

\* np.tan of an angle given in degrees, in ten-thousandths.
tan_deg(a) ==
    CASE a = 0   -> 0
      [] a = 10  -> 1763
      [] a = -10 -> -1763

\* h(x) = 0.45 * sin(3x) + 0.55, in ten-thousandths.
h(x) == RDiv(45 * sin3(x), Scale) + 5500

\* calc_height(a) = b_h + tan(arctan((g_h - b_h) / 1.1) + 2 a pi / 360) * 1.1.
\* tan(arctan(s) + t) is computed by the addition formula
\* (s + tan t) / (1 - s * tan t).
calc_height(a) ==
    LET b_h == h(-52)
        g_h == h(50)
        s   == RDiv((g_h - b_h) * Scale, 110)
        t   == tan_deg(a)
        num == s + t
        den == Scale * Scale - RDiv(s * t, Scale * Scale)
        tn  == RDiv(num * Scale * Scale, den)
    IN  b_h + RDiv(tn * 110, Scale)

\* get_env_points(angle): the three local points of one hill segment.
get_env_points(angle) ==
    LET x1 == -120
        x2 == -52
    IN  << <<x1, h(x1)>>, <<x2, h(x2)>>, <<50, calc_height(angle)>> >>

\* calc_points with idx read again after each append, so that a segment's
\* third point is shifted from the segment's own second point.
RECURSIVE calc_points_moving_idx(_)
calc_points_moving_idx(as) ==
    IF Len(as) = 0 THEN << >>
    ELSE LET i    == Len(as) - 1
             pts  == get_env_points(as[Len(as)])
             prev == calc_points_moving_idx(SubSeq(as, 1, Len(as) - 1))
         IN  IF i = 0 THEN pts
             ELSE LET idx    == Len(prev)
                      second == << pts[2][1] + prev[idx][1] - pts[1][1],
                                   pts[2][2] + prev[idx][2] - pts[1][2] >>
                  IN  prev \o << second,
                                 << pts[3][1] + second[1] - pts[1][1],
                                    pts[3][2] + second[2] - pts[1][2] >> >>

\* calc_points with the offset taken from the segment's second local point,
\* pts[1], instead of its first, pts[0].
RECURSIVE calc_points_offset_from_second(_)
calc_points_offset_from_second(as) ==
    IF Len(as) = 0 THEN << >>
    ELSE LET i    == Len(as) - 1
             pts  == get_env_points(as[Len(as)])
             prev == calc_points_offset_from_second(SubSeq(as, 1, Len(as) - 1))
         IN  IF i = 0 THEN pts
             ELSE LET idx   == Len(prev)
                      off_x == prev[idx][1] - pts[2][1]
                      off_y == prev[idx][2] - pts[2][2]
                  IN  prev \o << <<pts[2][1] + off_x, pts[2][2] + off_y>>,
                                 <<pts[3][1] + off_x, pts[3][2] + off_y>> >>

\* calc_points(angles): the first segment's three points, then for each later
\* segment its second and third local points shifted by
\* points[idx] - pts[0], idx being the last point accepted before the segment.
RECURSIVE calc_points(_)
calc_points(as) ==
    IF Len(as) = 0 THEN << >>
    ELSE LET i    == Len(as) - 1
             pts  == get_env_points(as[Len(as)])
             prev == calc_points(SubSeq(as, 1, Len(as) - 1))
         IN  IF i = 0 THEN pts
             ELSE LET idx   == Len(prev)
                      off_x == prev[idx][1] - pts[1][1]
                      off_y == prev[idx][2] - pts[1][2]
                  IN  prev \o << <<pts[2][1] + off_x, pts[2][2] + off_y>>,
                                 <<pts[3][1] + off_x, pts[3][2] + off_y>> >>

\* self.x = self.points[:, 0] and self.y = self.points[:, 1]
xs(pts) == [i \in 1 .. Len(pts) |-> pts[i][1]]
ys(pts) == [i \in 1 .. Len(pts) |-> pts[i][2]]

\* self.x.min() and self.x.max()
x_min(pts) == CHOOSE a \in {pts[i][1] : i \in 1 .. Len(pts)} :
                  \A i \in 1 .. Len(pts) : a <= pts[i][1]
x_max(pts) == CHOOSE a \in {pts[i][1] : i \in 1 .. Len(pts)} :
                  \A i \in 1 .. Len(pts) : a >= pts[i][1]

\* self.x_peaks = self.x[::2][1:]: Python indices 2, 4, ..., i.e. the 3rd,
\* 5th, ... control point.
x_peaks(pts) == { pts[i][1] : i \in { j \in 3 .. Len(pts) : j % 2 = 1 } }

----------------------------------------------------------------------------
(* Smooth Curve Model: CubicSpline(self.x, self.y, bc_type="clamped") *)

\* Width of interval i, between knot i and knot i + 1.
Width(X, i) == X[i + 1] - X[i]

\* Chord slope of interval i, in ten-thousandths.
Chord(X, Y, i) == RDiv((Y[i + 1] - Y[i]) * Scale, Width(X, i))

\* The spline's slopes k at the knots solve, for every interior knot i,
\*   Width(i) k[i-1] + 2 (Width(i-1) + Width(i)) k[i] + Width(i-1) k[i+1]
\*     = 3 (Chord(i-1) Width(i) + Chord(i) Width(i-1)),
\* with k = 0 at the first and the last knot (clamped).  Forward sweep of the
\* tridiagonal solve: <<c', d'>> at knot i, c' in ten-thousandths.
RECURSIVE Sweep(_, _, _)
Sweep(X, Y, i) ==
    IF i = 1 THEN <<0, 0>>
    ELSE LET prev == Sweep(X, Y, i - 1)
             a    == Width(X, i)
             b    == 2 * (Width(X, i - 1) + Width(X, i))
             c    == Width(X, i - 1)
             r    == 3 * (Chord(X, Y, i - 1) * Width(X, i)
                          + Chord(X, Y, i) * Width(X, i - 1))
             den  == RDiv(b * Scale * Scale - a * prev[1], Scale)
         IN  << RDiv(c * Scale * Scale * Scale, den),
                RDiv((r - a * prev[2]) * Scale, den) >>

\* Back substitution: the slope at knot i, in ten-thousandths.
RECURSIVE KnotSlope(_, _, _)
KnotSlope(X, Y, i) ==
    IF i = 1 \/ i = Len(X) THEN 0
    ELSE LET s == Sweep(X, Y, i)
         IN  s[2] - RDiv(s[1] * KnotSlope(X, Y, i + 1), Scale * Scale)

\* The fitted spline, represented by the sequence of its slopes at the knots.
RECURSIVE CubicSplineFrom(_, _, _)
CubicSplineFrom(X, Y, i) ==
    IF i > Len(X) THEN << >>
    ELSE << KnotSlope(X, Y, i) >> \o CubicSplineFrom(X, Y, i + 1)

CubicSpline(X, Y) == CubicSplineFrom(X, Y, 1)

\* The interval x is evaluated on: the one holding x, the first one for x left
\* of the knots and the last one for x right of them (the spline extrapolates).
RECURSIVE Piece(_, _, _)
Piece(X, x, i) ==
    IF i < Len(X) - 1 /\ x >= X[i + 1] THEN Piece(X, x, i + 1) ELSE i

\* self.f(x): the cubic of x's interval, y + t (k + t (c + t d)), t = x - X[i],
\* in ten-thousandths.
SplineValue(pts, k, x) ==
    LET X  == xs(pts)
        Y  == ys(pts)
        i  == Piece(X, x, 1)
        w  == Width(X, i)
        t  == x - X[i]
        m  == Chord(X, Y, i)
        c  == RDiv((3 * m - 2 * k[i] - k[i + 1]) * Scale, w)
        d  == RDiv(RDiv((k[i] + k[i + 1] - 2 * m) * Scale, w) * Scale, w)
        a1 == c + RDiv(d * t, Scale)
        a2 == k[i] + RDiv(a1 * t, Scale)
    IN  Y[i] + RDiv(a2 * t, Scale)

\* The values of f at lo, lo + 1, ..., hi, as a sequence.
RECURSIVE SplineValues(_, _, _, _)
SplineValues(pts, k, lo, hi) ==
    IF lo = hi THEN << SplineValue(pts, k, lo) >>
    ELSE LET mid == (lo + hi) \div 2
         IN  SplineValues(pts, k, lo, mid) \o SplineValues(pts, k, mid + 1, hi)

----------------------------------------------------------------------------------------------------------------------------------------
(* reset's start position *)

\* The value of Body for x = v, v being computed once.
Bind(v, Body(_)) == CHOOSE r \in { Body(x) : x \in {v} } : TRUE

\* np.linspace(lo, hi, n)[i], i counted from 0.
linspace(lo, hi, n, i) == lo + RDiv(i * (hi - lo), n - 1)

\* self.f(x) for x = np.linspace(self.x[0], self.x[2], 1024): the values of f
\* at the samples lo .. hi (counted from 0), as a sequence.
RECURSIVE SampleValues(_, _, _, _)
SampleValues(pts, k, lo, hi) ==
    IF lo = hi
    THEN << SplineValue(pts, k,
                linspace(pts[1][1], pts[3][1], NumSamples, lo)) >>
    ELSE LET mid == (lo + hi) \div 2
         IN  SampleValues(pts, k, lo, mid) \o SampleValues(pts, k, mid + 1, hi)

\* np.argmin(vals): the first index (counted from 0) holding the least value.
argmin(vals) ==
    (CHOOSE i \in 1 .. Len(vals) :
        \A j \in 1 .. Len(vals) :
            vals[i] < vals[j] \/ (vals[i] = vals[j] /\ i <= j)) - 1

\* reset's x[idx]: the sample of [x[0], x[2]] that minimises f.
reset_position(pts, k) ==
    Bind(SampleValues(pts, k, 0, NumSamples - 1),
         LAMBDA vals : linspace(pts[1][1], pts[3][1], NumSamples, argmin(vals)))

----------------------------------------------------------------------------
(* Construction *)

\* The fields __init__ sets, which never change after construction.
\* f_values and x_start are not fields: they hold, computed once, what self.f
\* returns on the grid points of [x_min, x_max + delta] and the position reset
\* computes, both of which depend on the terrain alone.
fields(as, pts, k) ==
    [ angles   |-> as,
      points   |-> pts,
      x_min    |-> x_min(pts),
      x_max    |-> x_max(pts),
      x_last   |-> pts[Len(pts)][1],
      x_peaks  |-> x_peaks(pts),
      f        |-> k,
      f_values |-> SplineValues(pts, k, x_min(pts), x_max(pts) + delta),
      x_start  |-> reset_position(pts, k) ]

\* __init__(angles)
construct(as) ==
    Bind(calc_points(as),
         LAMBDA pts : Bind(CubicSpline(xs(pts), ys(pts)),
                           LAMBDA k : fields(as, pts, k)))

\* The environments the model constructs, one per angle sequence.
Environments == { construct(as) : as \in AngleSeqs }

\* The constructed environment: the object the calls act on.
self == CHOOSE e \in Environments : e.angles = angles

----------------------------------------------------------------------------
(* Physics & Episode State Machine *)

\* np.clip(a, lo, hi)
clip(a, lo, hi) == IF a < lo THEN lo ELSE IF a > hi THEN hi ELSE a

\* self.f(x)
f(e, x) ==
    IF x >= e.x_min /\ x <= e.x_max + delta
    THEN e.f_values[x - e.x_min + 1]
    ELSE SplineValue(e.points, e.f, x)

\* df(x) = (f(x + d) - f(x)) / d, in hundredths.
df(e, x) == RDiv(f(e, x + delta) - f(e, x), delta)

\* self.low and self.high: the declared observation bounds.
low(e) == << e.x_min, -max_speed >>
high(e) == << e.x_max, max_speed >>

\* reset that starts the car on the valley's control point x[1].
reset_state_at_knot(e) == << e.points[2][1], 0 >>

\* The state reset stores: (x[idx], 0).
reset_state(e) == << e.x_start, 0 >>

\* reset that leaves the counter as it is.
reset_counter_kept(c) == c

\* The counter reset stores.
reset_counter(c) == 0

\* step without the np.clip of the velocity.
step_velocity_unclipped(e, x, v, action) ==
    v + (action - 1) * F - RDiv(df(e, x) * g, Scale)

\* step, lines 107-108: the velocity after force, gravity and np.clip.
step_velocity(e, x, v, action) ==
    clip(v + (action - 1) * F - RDiv(df(e, x) * g, Scale),
         -max_speed, max_speed)

\* step without the np.clip of the position.
step_position_unclipped(e, x, v) == x + v

\* step, lines 110-111: the position after the move and np.clip.
step_position(e, x, v) == clip(x + v, e.x_min, e.x_max)

\* The left-wall rule testing x < x_min, which the clipped x never satisfies.
wall_rule_strict(e, x, v) == IF x < e.x_min /\ v < 0 THEN 1 ELSE v

\* step, lines 113-114: the velocity after the left-wall rule.
wall_rule(e, x, v) == IF x <= e.x_min /\ v < 0 THEN 1 ELSE v

\* reward with the two crossing tests also true on a peak itself.
reward_inclusive(e, pp, x) ==
    IF \E pk \in e.x_peaks : x >= pk /\ pp < pk THEN 5
    ELSE IF \E pk \in e.x_peaks : x <= pk /\ pp > pk THEN -5
    ELSE -1

\* reward with .any() taken of each comparison on its own, so that the two
\* sides of a crossing may come from different peaks.
reward_separate_any(e, pp, x) ==
    IF (\E pk \in e.x_peaks : x > pk) /\ (\E pk \in e.x_peaks : pp < pk) THEN 5
    ELSE IF (\E pk \in e.x_peaks : x < pk) /\ (\E pk \in e.x_peaks : pp > pk)
         THEN -5
    ELSE -1

\* reward(p, x)
reward(e, pp, x) ==
    IF \E pk \in e.x_peaks : x > pk /\ pp < pk THEN 5
    ELSE IF \E pk \in e.x_peaks : x < pk /\ pp > pk THEN -5
    ELSE -1

\* is_goal_reached testing > instead of >=.
is_goal_reached_strict(e, st) == st[1] > e.x_last

\* is_goal_reached(): self.state[0] >= self.x[-1]
is_goal_reached(e, st) == st[1] >= e.x_last

\* done()
done(e, c, ms, st) == c = ms \/ is_goal_reached(e, st)

----------------------------------------------------------------------------
(* Calls *)

\* The environment right after __init__: self.state is not set.
Init ==
    /\ angles \in AngleSeqs
    /\ max_step \in MaxSteps
    /\ counter = 0
    /\ state = << >>
    /\ lastOp = "init"
    /\ ret = << >>
    /\ p = 0
    /\ v_clipped = 0
    /\ nsteps = 0

\* reset()
Reset ==
    /\ counter' = reset_counter(counter)
    /\ state' = reset_state(self)
    /\ ret' = << state' >>
    /\ lastOp' = "reset"
    /\ nsteps' = 0
    /\ UNCHANGED <<angles, max_step, p, v_clipped>>

\* step(action), called once self.state is set.
Step(action) ==
    /\ state # << >>
    /\ counter < MaxCounter
    /\ LET e  == self
           x0 == state[1]
           v0 == state[2]
           v1 == step_velocity(e, x0, v0, action)
           x1 == step_position(e, x0, v1)
           v2 == wall_rule(e, x1, v1)
       IN  /\ state' = <<x1, v2>>
           /\ counter' = counter + 1
           /\ p' = x0
           /\ v_clipped' = v1
           /\ ret' = << <<x1, v2>>, reward(e, x0, x1),
                        done(e, counter + 1, max_step, <<x1, v2>>) >>
    /\ lastOp' = "step"
    /\ nsteps' = nsteps + 1
    /\ UNCHANGED <<angles, max_step>>

\* step that, with self.state not set, runs on from position 0, velocity 0.
StepBeforeReset_runs ==
    /\ state = << >>
    /\ state' = <<0, 0>>
    /\ counter' = counter + 1
    /\ ret' = << <<0, 0>>, -1, FALSE >>
    /\ lastOp' = "step"
    /\ UNCHANGED <<angles, max_step, p, v_clipped, nsteps>>

\* step(action), called before any reset: line 104 reads self.state, which
\* is not set, and raises AttributeError; nothing is changed.
StepBeforeReset ==
    /\ state = << >>
    /\ lastOp' = "step_raised"
    /\ UNCHANGED <<angles, max_step, counter, state, ret, p, v_clipped, nsteps>>

Next ==
    \/ Reset
    \/ \E action \in Actions : Step(action)
    \/ StepBeforeReset

Spec == Init /\ [][Next]_vars

----------------------------------------------------------------------------
(* step called with any integer *)

\* The integers a caller passes as action: step takes any int, whatever
\* action_space declares.
ActionInputs == -1 .. 3

\* One environment, constructed with angles = (0,) and max_step = 3.
AnyActionInit == Init /\ angles = <<0>> /\ max_step = 3

AnyActionNext ==
    \/ Reset
    \/ \E action \in ActionInputs : Step(action)
    \/ StepBeforeReset

SpecAnyAction == AnyActionInit /\ [][AnyActionNext]_vars

----------------------------------------------------------------------------
(* Construction, for any angle sequence *)

\* The angles a hill segment is built with (degrees).
AngleValues == { -10, 0, 10 }

\* Longest angle sequence the environment is constructed with.
MaxAngles == 4

\* The angle sequences given to __init__, the empty one included.
AngleInputs == UNION { [1 .. n -> AngleValues] : n \in 0 .. MaxAngles }

\* Before __init__ runs: only its argument angles is known.
ConstructInit ==
    /\ angles \in AngleInputs
    /\ max_step = 500
    /\ counter = 0
    /\ state = << >>
    /\ lastOp = "new"
    /\ ret = << >>
    /\ p = 0
    /\ v_clipped = 0
    /\ nsteps = 0

\* __init__, line 32: self.calc_points(angles).  ret holds what it returned.
CalcPoints ==
    /\ lastOp = "new"
    /\ ret' = calc_points(angles)
    /\ lastOp' = "calc_points"
    /\ UNCHANGED <<angles, max_step, counter, state, p, v_clipped, nsteps>>

\* __init__ that takes the column of an empty point array to be empty.
Construct_accepting ==
    /\ lastOp = "calc_points"
    /\ lastOp' = "init"
    /\ UNCHANGED <<angles, max_step, counter, state, ret, p, v_clipped, nsteps>>

\* __init__, lines 32-55: np.array of the points and its columns.  np.array
\* of an empty list has one dimension, so self.points[:, 0] (line 34) raises
\* IndexError and no object is constructed; otherwise the fields are set and
\* ret holds self.points.
Construct ==
    /\ lastOp = "calc_points"
    /\ lastOp' = IF ret = << >> THEN "init_raised" ELSE "init"
    /\ UNCHANGED <<angles, max_step, counter, state, ret, p, v_clipped, nsteps>>

ConstructNext == CalcPoints \/ Construct

SpecConstruct == ConstructInit /\ [][ConstructNext]_vars

----------------------------------------------------------------------------
(* reward(p, x) as a function of any two positions *)

\* How far from a control point the positions given to reward lie.
MaxOffset == 2

\* The positions given to reward: those within MaxOffset of a control point,
\* inside the domain or just outside it.
PositionInputs(e) ==
    { e.points[i][1] + d : i \in 1 .. Len(e.points), d \in -MaxOffset .. MaxOffset }

\* A constructed environment and the two arguments of a reward call: p, and
\* x held as the position of self.state, as in step's call of line 119.
RewardInit ==
    /\ angles \in AngleSeqs
    /\ max_step = 500
    /\ counter = 0
    /\ \E x \in PositionInputs(self) : state = <<x, 0>>
    /\ p \in PositionInputs(self)
    /\ lastOp = "init"
    /\ ret = << >>
    /\ v_clipped = 0
    /\ nsteps = 0

\* self.reward(p, x).  ret holds what it returned.
CallReward ==
    /\ lastOp = "init"
    /\ ret' = << reward(self, p, state[1]) >>
    /\ lastOp' = "reward"
    /\ UNCHANGED <<angles, max_step, counter, state, p, v_clipped, nsteps>>

SpecReward == RewardInit /\ [][CallReward]_vars

----------------------------------------------------------------------------
(* Properties *)

\* C1. Velocity clamp: in every state reached by reset and steps, the velocity
\* stored in self.state and the velocity of the returned observation lie in
\* [-max_speed, +max_speed], also after the left-wall rule has set it.
C1_VelocityClamp ==
    state # << >> =>
        /\ -max_speed <= state[2] /\ state[2] <= max_speed
        /\ -max_speed <= ret[1][2] /\ ret[1][2] <= max_speed

\* C1 witness: a step has ended at full speed to the left.
C1_AtFullSpeed == lastOp = "step" /\ state[2] = -max_speed

\* C2. Position clamp: in every state reached by reset and steps the position
\* is at least the smallest and at most the largest control-point x, and the
\* returned observation lies inside the declared bounds low and high.
C2_PositionClamp ==
    state # << >> =>
        LET pts == self.points
            n   == Len(pts)
        IN  /\ \E j \in 1 .. n : /\ \A i \in 1 .. n : pts[j][1] <= pts[i][1]
                                 /\ pts[j][1] <= state[1]
            /\ \E j \in 1 .. n : /\ \A i \in 1 .. n : pts[j][1] >= pts[i][1]
                                 /\ state[1] <= pts[j][1]
            /\ \A c \in 1 .. 2 : /\ low(self)[c] <= ret[1][c]
                                 /\ ret[1][c] <= high(self)[c]

\* C2 witness: a step whose move would have carried the car beyond x_max
\* ended at x_max.
C2_ClippedAtRight ==
    /\ lastOp = "step"
    /\ state[1] = self.x_max
    /\ p + v_clipped > self.x_max

\* C3. The terminal flag a step returns is true exactly when, after the step,
\* counter = max_step or the position is at or beyond the last control point.
C3_DoneIff ==
    lastOp = "step" =>
        (ret[3] <=> (counter = max_step
                     \/ state[1] >= self.points[Len(self.points)][1]))

\* C3 witness: a step returned done = true for the goal alone.
C3_DoneByGoal ==
    /\ lastOp = "step"
    /\ ret[3]
    /\ counter < max_step
    /\ state[1] >= self.x_max

\* C4. Termination by step limit: the k-th step after reset returns
\* done = false when k < max_step and the position is below x_max, and the
\* max_step-th step returns done = true.
C4_StepLimit ==
    lastOp = "step" =>
        /\ (nsteps < max_step /\ state[1] < self.x_max) => ~ret[3]
        /\ nsteps = max_step => ret[3]

\* C4 witness: the max_step-th step of an episode returned done = true with
\* the car short of the goal.
C4_DoneByLimit ==
    /\ lastOp = "step"
    /\ nsteps = max_step
    /\ state[1] < self.x_max
    /\ ret[3]

\* C5. Termination by goal: a step called from a state whose position is
\* x_max returns done = true.
C5_StepFromGoalIsDone ==
    (lastOp = "step" /\ p = self.x_max) => ret[3]

\* C6. DONE is terminal until the next reset: a step that follows a step
\* which returned done = true, with no reset in between, returns done = true.
C6_DoneIsTerminal ==
    [][(lastOp = "step" /\ ret[3] /\ lastOp' = "step") => ret'[3]]_vars

\* C7. Episode counter invariant: 0 <= counter <= max_step in every state
\* reached by reset and step calls.
C7_CounterBounded == 0 <= counter /\ counter <= max_step

\* C8. Reward function: a step returns +5 if some peak k has p < k and x > k,
\* otherwise -5 if some peak k has p > k and x < k, otherwise -1, for p the
\* position before the step and x the clipped position after it.
C8_Reward ==
    lastOp = "step" =>
        LET x      == state[1]
            up     == { k \in self.x_peaks : p < k /\ x > k }
            down   == { k \in self.x_peaks : p > k /\ x < k }
        IN  /\ ret[2] \in {5, -5, -1}
            /\ up # {} => ret[2] = 5
            /\ (up = {} /\ down # {}) => ret[2] = -5
            /\ (up = {} /\ down = {}) => ret[2] = -1

\* C8 witness: a step moved the car back over a peak and returned -5.
C8_BackwardCrossing ==
    /\ lastOp = "step"
    /\ ret[2] = -5
    /\ \E k \in self.x_peaks : p > k /\ state[1] < k

\* C9. Wall bounce: after a step that ends at x_min the velocity is not
\* negative, and it is exactly 1e-2 when the clipped velocity was negative.
\* In particular a step with action 1 from x = x_min, v = -0.01 stores v > 0,
\* on every constructed terrain.
C9_WallBounce ==
    /\ (lastOp = "step" /\ state[1] = self.x_min) =>
           /\ state[2] >= 0
           /\ v_clipped < 0 => (state[2] = 1 /\ ret[1][2] = 1)
    /\ \A e \in Environments :
           LET v1 == step_velocity(e, e.x_min, -1, 1)
           IN  wall_rule(e, step_position(e, e.x_min, v1), v1) > 0

\* C9 witness: a step ended at x_min with a negative clipped velocity.
C9_HitLeftWall ==
    /\ lastOp = "step"
    /\ state[1] = self.x_min
    /\ v_clipped < 0

\* For every constructed terrain, the first sample of
\* np.linspace(x[0], x[2], 1024) at which f is least.
C10_Starts ==
    { << e.angles,
         LET pts     == e.points
             samples == { linspace(pts[1][1], pts[3][1], NumSamples, i) :
                          i \in 0 .. NumSamples - 1 }
         IN  CHOOSE x \in samples :
                 \A y \in samples :
                     f(e, x) < f(e, y) \/ (f(e, x) = f(e, y) /\ x <= y) >> :
      e \in Environments }

\* C10. Reset is idempotent and history-independent: whatever came before,
\* reset leaves counter = 0 and returns the observation (x_start, 0), where
\* x_start, in [x[0], x[2]], depends on the terrain alone.
C10_ResetFixedStart ==
    lastOp = "reset" =>
        /\ counter = 0
        /\ \E e \in C10_Starts : e[1] = angles /\ state = << e[2], 0 >>
        /\ ret = << state >>
        /\ self.points[1][1] <= state[1]
        /\ state[1] <= self.points[3][1]

\* C10 witness: a reset made after a step that had moved the car.
C10_ResetAfterSteps == lastOp = "reset" /\ v_clipped # 0

\* C11. Invalid action: a step call whose action is not in {0, 1, 2} is
\* reported as an error and updates neither the position, the velocity nor
\* the counter.
C11_InvalidActionRejected ==
    [][\A a \in ActionInputs \ Actions :
           Step(a) => /\ lastOp' = "step_raised"
                      /\ state' = state
                      /\ counter' = counter]_vars

\* C12. Step before reset: a step call made after construction and before any
\* reset raises, leaves the counter at 0 and sets no agent state.
C12_StepBeforeResetRaises ==
    [][(state = << >> /\ lastOp' \in {"step", "step_raised"}) =>
           /\ lastOp' = "step_raised"
           /\ counter' = 0
           /\ state' = << >>
           /\ ret' = << >>]_vars

\* C12 witness: a step call has raised before any reset.
C12_Raised == lastOp = "step_raised" /\ state = << >> /\ counter = 0

\* C13. Peak count: the peak set built at construction has exactly
\* len(angles) - 1 elements.
C13_PeakCount ==
    lastOp = "init" => Cardinality(x_peaks(ret)) = Len(angles) - 1

\* C14. Continuity of calc_points: the first segment's three local points are
\* kept, and for every later segment i both appended points are its second
\* and third local points shifted by one offset, the last point accepted
\* before the segment minus the segment's first local point.
C14_Continuity ==
    (lastOp = "calc_points" /\ Len(angles) >= 1) =>
        /\ Len(ret) = 2 * Len(angles) + 1
        /\ SubSeq(ret, 1, 3) = get_env_points(angles[1])
        /\ \A i \in 2 .. Len(angles) :
               LET loc  == get_env_points(angles[i])
                   last == ret[2 * i - 1]
               IN  \A c \in 1 .. 2 :
                       /\ ret[2 * i][c] - loc[2][c] = last[c] - loc[1][c]
                       /\ ret[2 * i + 1][c] - loc[3][c] = last[c] - loc[1][c]

\* C14 witness: calc_points has returned for three segments of different
\* angles.
C14_ThreeSegments ==
    /\ lastOp = "calc_points"
    /\ Len(angles) = 3
    /\ angles[1] # angles[2]
    /\ angles[2] # angles[3]

\* C15. Monotonic domain: the x-coordinates calc_points returns are strictly
\* increasing, so x_min is the first and x_max the last of them.
C15_Monotonic ==
    (lastOp = "calc_points" /\ Len(angles) >= 1) =>
        /\ \A i \in 1 .. Len(ret) - 1 : ret[i][1] < ret[i + 1][1]
        /\ x_min(ret) = ret[1][1]
        /\ x_max(ret) = ret[Len(ret)][1]

\* C15 witness: calc_points has returned for a sequence holding a negative
\* and a positive angle.
C15_MixedAngles ==
    /\ lastOp = "calc_points"
    /\ \E i, j \in 1 .. Len(angles) : angles[i] < 0 /\ angles[j] > 0

\* C16. Invalid configuration: construction with an empty angle sequence
\* raises during __init__, and no environment is constructed from it.
C16_EmptyAnglesRejected ==
    /\ lastOp = "init" => Len(angles) >= 1
    /\ (Len(angles) = 0 /\ lastOp \notin {"new", "calc_points"}) =>
           lastOp = "init_raised"

\* C16 witness: __init__ has raised on the empty angle sequence.
C16_Raised == lastOp = "init_raised" /\ angles = << >>

\* C17. No out-of-domain curve query: the arguments at which a step evaluates
\* f, x and x + delta for the position x it starts from, lie in
\* [x_min, x_max].
C17_QueriesInDomain ==
    lastOp = "step" => (self.x_min <= p /\ p + delta <= self.x_max)

C19_CrossingsExclusive ==
    lastOp = "reward" =>
        LET x    == state[1]
            up   == \E k \in self.x_peaks : p < k /\ x > k
            down == \E k \in self.x_peaks : p > k /\ x < k
        IN  /\ ~(up /\ down)
            /\ ret[1] = IF down THEN -5 ELSE IF up THEN 5 ELSE -1

\* C19 witness: reward was called for a displacement that crosses two peaks
\* forward.
C19_LargeDisplacement ==
    /\ lastOp = "reward"
    /\ Cardinality({ k \in self.x_peaks : p < k /\ state[1] > k }) >= 2

\* C20. The last control point x_max is a peak, the largest one; no step ends
\* beyond it, so none returns +5 for it, and the step that brings the car to
\* x_max returns reward -1 and done = true.
C20_GoalPeakNeverRewarded ==
    lastOp = "step" =>
        /\ self.x_last = self.x_max
        /\ self.x_last \in self.x_peaks
        /\ \A k \in self.x_peaks : k <= self.x_last
        /\ ~(p < self.x_last /\ state[1] > self.x_last)
        /\ (p < self.x_last /\ state[1] = self.x_last) =>
               (ret[2] = -1 /\ ret[3])

\* C20 witness: a step has brought the car from below x_max to x_max.
C20_ReachedGoal ==
    /\ lastOp = "step"
    /\ p < self.x_last
    /\ state[1] = self.x_last
    /\ ret[2] = -1

====
